---- MODULE Spec2Model ----
(***************************************************************************)
(* Model of unicode_hfwidth (src/lib.rs): conversions between standard     *)
(* width characters and the Unicode "Halfwidth and Fullwidth Forms" block. *)
(*                                                                         *)
(* A char is modelled by its code point.  An Option<char> is a sequence of *)
(* length at most one: None is << >>, Some(c) is <<c>>.  A u32 is a pair   *)
(* of 16-bit limbs so that the offset arithmetic keeps its 32-bit width.   *)
(* The state is a caller's trace of calls: the first call is made on the   *)
(* input character, a later call on the previous call's argument or on the *)
(* character it returned.                                                  *)
(***************************************************************************)
EXTENDS Integers, Sequences, FiniteSets, TLC

VARIABLES input, calls, status

vars == <<input, calls, status>>

\* ------------------------------------------------------------------ bounds
\* Largest code point drawn as an input (the whole Basic Multilingual Plane).
MaxChar == 65535

\* Longest trace of calls made on one input.
MaxCalls == 2

\* ------------------------------------------------------- the char type
\* Code points of the supplementary planes drawn as inputs besides 0..MaxChar;
\* their low 16 bits are those of table entries.
HighSamples == {\h1ff41, \h1ff76, \h1ffe0, \h130ab, \h100041, \h10ffff}

\* char excludes the surrogate range and ends at U+10FFFF.
IsScalar(n) == 0 <= n /\ n <= \h10ffff /\ ~(\hd800 <= n /\ n <= \hdfff)

Chars == {c \in (0..MaxChar) \cup HighSamples : IsScalar(c)}

None == << >>

Some(c) == <<c>>

IsSome(o) == Len(o) = 1

\* ------------------------------------------------------- u32 arithmetic
Limb == 65536

U32(n) == [hi |-> n \div Limb, lo |-> n % Limb]

\* a - b on u32: the wrapped difference and whether it underflowed.
SubU32(a, b) ==
    LET d == a.lo - b.lo
        borrow == IF d < 0 THEN 1 ELSE 0
        h == a.hi - b.hi - borrow
    IN  [v |-> [hi |-> (h + Limb) % Limb, lo |-> (d + Limb) % Limb],
         ovf |-> h < 0]

\* a + b on u32: the wrapped sum and whether it overflowed.
AddU32(a, b) ==
    LET s == a.lo + b.lo
        carry == IF s >= Limb THEN 1 ELSE 0
        h == a.hi + b.hi + carry
    IN  [v |-> [hi |-> h % Limb, lo |-> s % Limb], ovf |-> h >= Limb]

\* The argument of transmute is a valid char.
ValidChar(u) == u.hi <= \h10 /\ ~(u.hi = 0 /\ \hd800 <= u.lo /\ u.lo <= \hdfff)

\* The value of an invalid char is never read as a number.
Poison == -1

transmute(u) == IF ValidChar(u) THEN u.hi * Limb + u.lo ELSE Poison

\* A range pattern lo...hi is inclusive at both ends.
InRange(x, lo, hi) == lo <= x /\ x <= hi

\* The outcome of a match arm: whether an arm matched, the u32 handed to
\* transmute, and whether computing it overflowed.
NoMatch == [some |-> FALSE, v |-> U32(0), ovf |-> FALSE]

Literal(n) == [some |-> TRUE, v |-> U32(n), ovf |-> FALSE]

Offset_swapped(ch, base, target) ==
    LET s == SubU32(U32(base), U32(ch))
        a == AddU32(s.v, U32(target))
    IN  [some |-> TRUE, v |-> a.v, ovf |-> s.ovf \/ a.ovf]

\* Some(transmute(ch - base + target))
Offset(ch, base, target) ==
    LET s == SubU32(U32(ch), U32(base))
        a == AddU32(s.v, U32(target))
    IN  [some |-> TRUE, v |-> a.v, ovf |-> s.ovf \/ a.ovf]

\* ------------------------------------------------- is_nonstandard_width
is_nonstandard_width_ffef(ch) == InRange(ch, \hff00, \hffef)

is_nonstandard_width_ffe0(ch) == InRange(ch, \hff00, \hffe0)

is_nonstandard_width(ch) == InRange(ch, \hff00, \hffee)

\* ---------------------------------------------------------- to_halfwidth
\* The arms under "Full-width variant characters", first match wins.
fullwidth_variant_arms_ff61(ch) ==
    IF InRange(ch, \hff01, \hff5e) THEN Offset(ch, \hff01, \h0021)
    ELSE IF InRange(ch, \hff5f, \hff61) THEN Offset(ch, \hff5f, \h2985)
    ELSE IF InRange(ch, \hffe0, \hffe1) THEN Offset(ch, \hffe0, \h00a2)
    ELSE IF ch = \hffe2 THEN Literal(\h00ac)
    ELSE IF ch = \hffe3 THEN Literal(\h00af)
    ELSE IF ch = \hffe4 THEN Literal(\h00a6)
    ELSE IF ch = \hffe5 THEN Literal(\h00a5)
    ELSE IF ch = \hffe6 THEN Literal(\h20a9)
    ELSE NoMatch

fullwidth_variant_arms_ffe7(ch) ==
    IF InRange(ch, \hff01, \hff5e) THEN Offset(ch, \hff01, \h0021)
    ELSE IF InRange(ch, \hff5f, \hff60) THEN Offset(ch, \hff5f, \h2985)
    ELSE IF InRange(ch, \hffe0, \hffe1) THEN Offset(ch, \hffe0, \h00a2)
    ELSE IF ch = \hffe2 THEN Literal(\h00ac)
    ELSE IF ch = \hffe3 THEN Literal(\h00af)
    ELSE IF ch = \hffe4 THEN Literal(\h00a6)
    ELSE IF ch = \hffe5 THEN Literal(\h00a5)
    ELSE IF InRange(ch, \hffe6, \hffe7) THEN Literal(\h20a9)
    ELSE NoMatch

fullwidth_variant_arms_pasted(ch) ==
    IF InRange(ch, \hff01, \hff5e) THEN Offset(ch, \hff01, \h0021)
    ELSE IF InRange(ch, \hff5f, \hff60) THEN Offset(ch, \hff5f, \hff01)
    ELSE IF InRange(ch, \hffe0, \hffe1) THEN Offset(ch, \hffe0, \h00a2)
    ELSE IF ch = \hffe2 THEN Literal(\h00ac)
    ELSE IF ch = \hffe3 THEN Literal(\h00af)
    ELSE IF ch = \hffe4 THEN Literal(\h00a6)
    ELSE IF ch = \hffe5 THEN Literal(\h00a5)
    ELSE IF ch = \hffe6 THEN Literal(\h20a9)
    ELSE NoMatch

fullwidth_variant_arms_ff5f(ch) ==
    IF InRange(ch, \hff01, \hff5e) THEN Offset(ch, \hff01, \h0021)
    ELSE IF ch = \hff5f THEN Offset(ch, \hff5f, \h2985)
    ELSE IF InRange(ch, \hffe0, \hffe1) THEN Offset(ch, \hffe0, \h00a2)
    ELSE IF ch = \hffe2 THEN Literal(\h00ac)
    ELSE IF ch = \hffe3 THEN Literal(\h00af)
    ELSE IF ch = \hffe4 THEN Literal(\h00a6)
    ELSE IF ch = \hffe5 THEN Literal(\h00a5)
    ELSE IF ch = \hffe6 THEN Literal(\h20a9)
    ELSE NoMatch

fullwidth_variant_arms(ch) ==
    IF InRange(ch, \hff01, \hff5e) THEN Offset(ch, \hff01, \h0021)
    ELSE IF InRange(ch, \hff5f, \hff60) THEN Offset(ch, \hff5f, \h2985)
    ELSE IF InRange(ch, \hffe0, \hffe1) THEN Offset(ch, \hffe0, \h00a2)
    ELSE IF ch = \hffe2 THEN Literal(\h00ac)
    ELSE IF ch = \hffe3 THEN Literal(\h00af)
    ELSE IF ch = \hffe4 THEN Literal(\h00a6)
    ELSE IF ch = \hffe5 THEN Literal(\h00a5)
    ELSE IF ch = \hffe6 THEN Literal(\h20a9)
    ELSE NoMatch

\* The arms under "Natural full-width characters".
natural_fullwidth_arms(ch) ==
    CASE ch = \h3002 -> Literal(\hff61)
      [] ch = \h300c -> Literal(\hff62)
      [] ch = \h300d -> Literal(\hff63)
      [] ch = \h3001 -> Literal(\hff64)
      [] ch = \h30fb -> Literal(\hff65)
      [] ch = \h30f2 -> Literal(\hff66)
      [] ch = \h30a1 -> Literal(\hff67)
      [] ch = \h30a3 -> Literal(\hff68)
      [] ch = \h30a5 -> Literal(\hff69)
      [] ch = \h30a7 -> Literal(\hff6a)
      [] ch = \h30a9 -> Literal(\hff6b)
      [] ch = \h30e3 -> Literal(\hff6c)
      [] ch = \h30e5 -> Literal(\hff6d)
      [] ch = \h30e7 -> Literal(\hff6e)
      [] ch = \h30c3 -> Literal(\hff6f)
      [] ch = \h30fc -> Literal(\hff70)
      [] ch = \h30a2 -> Literal(\hff71)
      [] ch = \h30a4 -> Literal(\hff72)
      [] ch = \h30a6 -> Literal(\hff73)
      [] ch = \h30a8 -> Literal(\hff74)
      [] ch = \h30aa -> Literal(\hff75)
      [] ch = \h30ab -> Literal(\hff76)
      [] ch = \h30ad -> Literal(\hff77)
      [] ch = \h30af -> Literal(\hff78)
      [] ch = \h30b1 -> Literal(\hff79)
      [] ch = \h30b3 -> Literal(\hff7a)
      [] ch = \h30b5 -> Literal(\hff7b)
      [] ch = \h30b7 -> Literal(\hff7c)
      [] ch = \h30b9 -> Literal(\hff7d)
      [] ch = \h30bb -> Literal(\hff7e)
      [] ch = \h30bd -> Literal(\hff7f)
      [] ch = \h30bf -> Literal(\hff80)
      [] ch = \h30c1 -> Literal(\hff81)
      [] ch = \h30c4 -> Literal(\hff82)
      [] ch = \h30c6 -> Literal(\hff83)
      [] ch = \h30c8 -> Literal(\hff84)
      [] ch = \h30ca -> Literal(\hff85)
      [] ch = \h30cb -> Literal(\hff86)
      [] ch = \h30cc -> Literal(\hff87)
      [] ch = \h30cd -> Literal(\hff88)
      [] ch = \h30ce -> Literal(\hff89)
      [] ch = \h30cf -> Literal(\hff8a)
      [] ch = \h30d2 -> Literal(\hff8b)
      [] ch = \h30d5 -> Literal(\hff8c)
      [] ch = \h30d8 -> Literal(\hff8d)
      [] ch = \h30db -> Literal(\hff8e)
      [] ch = \h30de -> Literal(\hff8f)
      [] ch = \h30df -> Literal(\hff90)
      [] ch = \h30e0 -> Literal(\hff91)
      [] ch = \h30e1 -> Literal(\hff92)
      [] ch = \h30e2 -> Literal(\hff93)
      [] ch = \h30e4 -> Literal(\hff94)
      [] ch = \h30e6 -> Literal(\hff95)
      [] ch = \h30e8 -> Literal(\hff96)
      [] ch = \h30e9 -> Literal(\hff97)
      [] ch = \h30ea -> Literal(\hff98)
      [] ch = \h30eb -> Literal(\hff99)
      [] ch = \h30ec -> Literal(\hff9a)
      [] ch = \h30ed -> Literal(\hff9b)
      [] ch = \h30ef -> Literal(\hff9c)
      [] ch = \h30f3 -> Literal(\hff9d)
      [] ch = \h3099 -> Literal(\hff9e)
      [] ch = \h309a -> Literal(\hff9f)
      [] ch = \h3164 -> Literal(\hffa0)
      [] ch = \h3131 -> Literal(\hffa1)
      [] ch = \h3132 -> Literal(\hffa2)
      [] ch = \h3133 -> Literal(\hffa3)
      [] ch = \h3134 -> Literal(\hffa4)
      [] ch = \h3135 -> Literal(\hffa5)
      [] ch = \h3136 -> Literal(\hffa6)
      [] ch = \h3137 -> Literal(\hffa7)
      [] ch = \h3138 -> Literal(\hffa8)
      [] ch = \h3139 -> Literal(\hffa9)
      [] ch = \h313a -> Literal(\hffaa)
      [] ch = \h313b -> Literal(\hffab)
      [] ch = \h313c -> Literal(\hffac)
      [] ch = \h313d -> Literal(\hffad)
      [] ch = \h313e -> Literal(\hffae)
      [] ch = \h313f -> Literal(\hffaf)
      [] ch = \h3140 -> Literal(\hffb0)
      [] ch = \h3141 -> Literal(\hffb1)
      [] ch = \h3142 -> Literal(\hffb2)
      [] ch = \h3143 -> Literal(\hffb3)
      [] ch = \h3144 -> Literal(\hffb4)
      [] ch = \h3145 -> Literal(\hffb5)
      [] ch = \h3146 -> Literal(\hffb6)
      [] ch = \h3147 -> Literal(\hffb7)
      [] ch = \h3148 -> Literal(\hffb8)
      [] ch = \h3149 -> Literal(\hffb9)
      [] ch = \h314a -> Literal(\hffba)
      [] ch = \h314b -> Literal(\hffbb)
      [] ch = \h314c -> Literal(\hffbc)
      [] ch = \h314d -> Literal(\hffbd)
      [] ch = \h314e -> Literal(\hffbe)
      [] ch = \h314f -> Literal(\hffc2)
      [] ch = \h3150 -> Literal(\hffc3)
      [] ch = \h3151 -> Literal(\hffc4)
      [] ch = \h3152 -> Literal(\hffc5)
      [] ch = \h3153 -> Literal(\hffc6)
      [] ch = \h3154 -> Literal(\hffc7)
      [] ch = \h3155 -> Literal(\hffca)
      [] ch = \h3156 -> Literal(\hffcb)
      [] ch = \h3157 -> Literal(\hffcc)
      [] ch = \h3158 -> Literal(\hffcd)
      [] ch = \h3159 -> Literal(\hffce)
      [] ch = \h315a -> Literal(\hffcf)
      [] ch = \h315b -> Literal(\hffd2)
      [] ch = \h315c -> Literal(\hffd3)
      [] ch = \h315d -> Literal(\hffd4)
      [] ch = \h315e -> Literal(\hffd5)
      [] ch = \h315f -> Literal(\hffd6)
      [] ch = \h3160 -> Literal(\hffd7)
      [] ch = \h3161 -> Literal(\hffda)
      [] ch = \h3162 -> Literal(\hffdb)
      [] ch = \h3163 -> Literal(\hffdc)
      [] ch = \h2502 -> Literal(\hffe8)
      [] ch = \h2190 -> Literal(\hffe9)
      [] ch = \h2191 -> Literal(\hffea)
      [] ch = \h2192 -> Literal(\hffeb)
      [] ch = \h2193 -> Literal(\hffec)
      [] ch = \h25a0 -> Literal(\hffed)
      [] ch = \h25cb -> Literal(\hffee)
      [] OTHER -> NoMatch

\* The match of to_halfwidth: the arm taken for ch.
to_halfwidth_match(ch) ==
    LET m == fullwidth_variant_arms(ch)
    IN  IF m.some THEN m ELSE natural_fullwidth_arms(ch)

\* What a call returns when it neither overflows nor builds an invalid char.
Returned(m) == IF m.some THEN Some(transmute(m.v)) ELSE None

to_halfwidth(ch) == Returned(to_halfwidth_match(ch))

\* ---------------------------------------------------------- to_fullwidth
\* The arms under "Half-width variant characters".
halfwidth_variant_arms(ch) ==
    CASE ch = \hff61 -> Literal(\h3002)
      [] ch = \hff62 -> Literal(\h300c)
      [] ch = \hff63 -> Literal(\h300d)
      [] ch = \hff64 -> Literal(\h3001)
      [] ch = \hff65 -> Literal(\h30fb)
      [] ch = \hff66 -> Literal(\h30f2)
      [] ch = \hff67 -> Literal(\h30a1)
      [] ch = \hff68 -> Literal(\h30a3)
      [] ch = \hff69 -> Literal(\h30a5)
      [] ch = \hff6a -> Literal(\h30a7)
      [] ch = \hff6b -> Literal(\h30a9)
      [] ch = \hff6c -> Literal(\h30e3)
      [] ch = \hff6d -> Literal(\h30e5)
      [] ch = \hff6e -> Literal(\h30e7)
      [] ch = \hff6f -> Literal(\h30c3)
      [] ch = \hff70 -> Literal(\h30fc)
      [] ch = \hff71 -> Literal(\h30a2)
      [] ch = \hff72 -> Literal(\h30a4)
      [] ch = \hff73 -> Literal(\h30a6)
      [] ch = \hff74 -> Literal(\h30a8)
      [] ch = \hff75 -> Literal(\h30aa)
      [] ch = \hff76 -> Literal(\h30ab)
      [] ch = \hff77 -> Literal(\h30ad)
      [] ch = \hff78 -> Literal(\h30af)
      [] ch = \hff79 -> Literal(\h30b1)
      [] ch = \hff7a -> Literal(\h30b3)
      [] ch = \hff7b -> Literal(\h30b5)
      [] ch = \hff7c -> Literal(\h30b7)
      [] ch = \hff7d -> Literal(\h30b9)
      [] ch = \hff7e -> Literal(\h30bb)
      [] ch = \hff7f -> Literal(\h30bd)
      [] ch = \hff80 -> Literal(\h30bf)
      [] ch = \hff81 -> Literal(\h30c1)
      [] ch = \hff82 -> Literal(\h30c4)
      [] ch = \hff83 -> Literal(\h30c6)
      [] ch = \hff84 -> Literal(\h30c8)
      [] ch = \hff85 -> Literal(\h30ca)
      [] ch = \hff86 -> Literal(\h30cb)
      [] ch = \hff87 -> Literal(\h30cc)
      [] ch = \hff88 -> Literal(\h30cd)
      [] ch = \hff89 -> Literal(\h30ce)
      [] ch = \hff8a -> Literal(\h30cf)
      [] ch = \hff8b -> Literal(\h30d2)
      [] ch = \hff8c -> Literal(\h30d5)
      [] ch = \hff8d -> Literal(\h30d8)
      [] ch = \hff8e -> Literal(\h30db)
      [] ch = \hff8f -> Literal(\h30de)
      [] ch = \hff90 -> Literal(\h30df)
      [] ch = \hff91 -> Literal(\h30e0)
      [] ch = \hff92 -> Literal(\h30e1)
      [] ch = \hff93 -> Literal(\h30e2)
      [] ch = \hff94 -> Literal(\h30e4)
      [] ch = \hff95 -> Literal(\h30e6)
      [] ch = \hff96 -> Literal(\h30e8)
      [] ch = \hff97 -> Literal(\h30e9)
      [] ch = \hff98 -> Literal(\h30ea)
      [] ch = \hff99 -> Literal(\h30eb)
      [] ch = \hff9a -> Literal(\h30ec)
      [] ch = \hff9b -> Literal(\h30ed)
      [] ch = \hff9c -> Literal(\h30ef)
      [] ch = \hff9d -> Literal(\h30f3)
      [] ch = \hff9e -> Literal(\h3099)
      [] ch = \hff9f -> Literal(\h309a)
      [] ch = \hffa0 -> Literal(\h3164)
      [] ch = \hffa1 -> Literal(\h3131)
      [] ch = \hffa2 -> Literal(\h3132)
      [] ch = \hffa3 -> Literal(\h3133)
      [] ch = \hffa4 -> Literal(\h3134)
      [] ch = \hffa5 -> Literal(\h3135)
      [] ch = \hffa6 -> Literal(\h3136)
      [] ch = \hffa7 -> Literal(\h3137)
      [] ch = \hffa8 -> Literal(\h3138)
      [] ch = \hffa9 -> Literal(\h3139)
      [] ch = \hffaa -> Literal(\h313a)
      [] ch = \hffab -> Literal(\h313b)
      [] ch = \hffac -> Literal(\h313c)
      [] ch = \hffad -> Literal(\h313d)
      [] ch = \hffae -> Literal(\h313e)
      [] ch = \hffaf -> Literal(\h313f)
      [] ch = \hffb0 -> Literal(\h3140)
      [] ch = \hffb1 -> Literal(\h3141)
      [] ch = \hffb2 -> Literal(\h3142)
      [] ch = \hffb3 -> Literal(\h3143)
      [] ch = \hffb4 -> Literal(\h3144)
      [] ch = \hffb5 -> Literal(\h3145)
      [] ch = \hffb6 -> Literal(\h3146)
      [] ch = \hffb7 -> Literal(\h3147)
      [] ch = \hffb8 -> Literal(\h3148)
      [] ch = \hffb9 -> Literal(\h3149)
      [] ch = \hffba -> Literal(\h314a)
      [] ch = \hffbb -> Literal(\h314b)
      [] ch = \hffbc -> Literal(\h314c)
      [] ch = \hffbd -> Literal(\h314d)
      [] ch = \hffbe -> Literal(\h314e)
      [] ch = \hffc2 -> Literal(\h314f)
      [] ch = \hffc3 -> Literal(\h3150)
      [] ch = \hffc4 -> Literal(\h3151)
      [] ch = \hffc5 -> Literal(\h3152)
      [] ch = \hffc6 -> Literal(\h3153)
      [] ch = \hffc7 -> Literal(\h3154)
      [] ch = \hffca -> Literal(\h3155)
      [] ch = \hffcb -> Literal(\h3156)
      [] ch = \hffcc -> Literal(\h3157)
      [] ch = \hffcd -> Literal(\h3158)
      [] ch = \hffce -> Literal(\h3159)
      [] ch = \hffcf -> Literal(\h315a)
      [] ch = \hffd2 -> Literal(\h315b)
      [] ch = \hffd3 -> Literal(\h315c)
      [] ch = \hffd4 -> Literal(\h315d)
      [] ch = \hffd5 -> Literal(\h315e)
      [] ch = \hffd6 -> Literal(\h315f)
      [] ch = \hffd7 -> Literal(\h3160)
      [] ch = \hffda -> Literal(\h3161)
      [] ch = \hffdb -> Literal(\h3162)
      [] ch = \hffdc -> Literal(\h3163)
      [] ch = \hffe8 -> Literal(\h2502)
      [] ch = \hffe9 -> Literal(\h2190)
      [] ch = \hffea -> Literal(\h2191)
      [] ch = \hffeb -> Literal(\h2192)
      [] ch = \hffec -> Literal(\h2193)
      [] ch = \hffed -> Literal(\h25a0)
      [] ch = \hffee -> Literal(\h25cb)
      [] OTHER -> NoMatch

\* The arms under "Natural half-width characters", first match wins.
natural_halfwidth_arms_swapped(ch) ==
    IF InRange(ch, \h0021, \h007e) THEN Offset(ch, \h0021, \hff01)
    ELSE IF InRange(ch, \h2985, \h2986) THEN Offset(ch, \h2985, \hff5f)
    ELSE IF InRange(ch, \h00a2, \h00a3) THEN Offset(ch, \h00a2, \hffe0)
    ELSE IF ch = \h00ac THEN Literal(\hffe2)
    ELSE IF ch = \h00af THEN Literal(\hffe3)
    ELSE IF ch = \h00a5 THEN Literal(\hffe4)
    ELSE IF ch = \h00a6 THEN Literal(\hffe5)
    ELSE IF ch = \h20a9 THEN Literal(\hffe6)
    ELSE NoMatch

natural_halfwidth_arms(ch) ==
    IF InRange(ch, \h0021, \h007e) THEN Offset(ch, \h0021, \hff01)
    ELSE IF InRange(ch, \h2985, \h2986) THEN Offset(ch, \h2985, \hff5f)
    ELSE IF InRange(ch, \h00a2, \h00a3) THEN Offset(ch, \h00a2, \hffe0)
    ELSE IF ch = \h00ac THEN Literal(\hffe2)
    ELSE IF ch = \h00af THEN Literal(\hffe3)
    ELSE IF ch = \h00a6 THEN Literal(\hffe4)
    ELSE IF ch = \h00a5 THEN Literal(\hffe5)
    ELSE IF ch = \h20a9 THEN Literal(\hffe6)
    ELSE NoMatch

\* The match of to_fullwidth: the arm taken for ch.
to_fullwidth_match(ch) ==
    LET m == halfwidth_variant_arms(ch)
    IN  IF m.some THEN m ELSE natural_halfwidth_arms(ch)

to_fullwidth(ch) == Returned(to_fullwidth_match(ch))

\* ----------------------------------------------------- to_standard_width
to_standard_width_match_identity(ch) ==
    IF InRange(ch, \hff01, \hff60) THEN to_halfwidth_match(ch)
    ELSE IF InRange(ch, \hff61, \hffdc) THEN to_fullwidth_match(ch)
    ELSE IF InRange(ch, \hffe0, \hffe6) THEN to_halfwidth_match(ch)
    ELSE IF InRange(ch, \hffe8, \hffee) THEN to_fullwidth_match(ch)
    ELSE Literal(ch)

to_standard_width_match_crossed(ch) ==
    IF InRange(ch, \hff01, \hff60) THEN to_fullwidth_match(ch)
    ELSE IF InRange(ch, \hff61, \hffdc) THEN to_halfwidth_match(ch)
    ELSE IF InRange(ch, \hffe0, \hffe6) THEN to_halfwidth_match(ch)
    ELSE IF InRange(ch, \hffe8, \hffee) THEN to_fullwidth_match(ch)
    ELSE NoMatch

\* The dispatcher: the arm its delegate takes, or no arm outside the ranges.
to_standard_width_match(ch) ==
    IF InRange(ch, \hff01, \hff60) THEN to_halfwidth_match(ch)
    ELSE IF InRange(ch, \hff61, \hffdc) THEN to_fullwidth_match(ch)
    ELSE IF InRange(ch, \hffe0, \hffe6) THEN to_halfwidth_match(ch)
    ELSE IF InRange(ch, \hffe8, \hffee) THEN to_fullwidth_match(ch)
    ELSE NoMatch

to_standard_width(ch) == Returned(to_standard_width_match(ch))

\* ------------------------------------------------------------ the caller
Converters == {"to_standard_width", "to_halfwidth", "to_fullwidth"}

\* What reading an invalid char may yield: None (the niche of Option<char>)
\* or some unrelated character.
UBReturns == {None, Some(0), Some(\hfffd)}

\* The outcomes of executing the arm m: a build with overflow checks panics on
\* an overflow, one without wraps; transmute of an invalid value is undefined.
Outcomes(m) ==
    IF ~m.some THEN {<<"ok", None>>}
    ELSE (IF m.ovf THEN {<<"panic", None>>} ELSE {})
         \cup (IF ValidChar(m.v) THEN {<<"ok", Some(transmute(m.v))>>}
               ELSE {<<"ub", r>> : r \in UBReturns})

Last == calls[Len(calls)]

\* The characters the caller has at hand for the next call.
Args ==
    IF calls = << >> THEN {input}
    ELSE IF Last.fn \in Converters /\ IsSome(Last.ret)
         THEN {Last.arg, Last.ret[1]}
         ELSE {}

CanCall == status = "ok" /\ Len(calls) < MaxCalls

Convert(fn, m, arg) ==
    \E o \in Outcomes(m) :
        /\ calls' = Append(calls, [fn |-> fn, arg |-> arg, ret |-> o[2]])
        /\ status' = o[1]
        /\ UNCHANGED input

CallIsNonstandardWidth ==
    /\ CanCall
    /\ \E arg \in Args :
        calls' = Append(calls, [fn |-> "is_nonstandard_width", arg |-> arg,
                                ret |-> is_nonstandard_width(arg)])
    /\ UNCHANGED <<input, status>>

CallToStandardWidth ==
    /\ CanCall
    /\ \E arg \in Args :
        Convert("to_standard_width", to_standard_width_match(arg), arg)

CallToHalfwidth ==
    /\ CanCall
    /\ \E arg \in Args : Convert("to_halfwidth", to_halfwidth_match(arg), arg)

CallToFullwidth ==
    /\ CanCall
    /\ \E arg \in Args : Convert("to_fullwidth", to_fullwidth_match(arg), arg)

Init ==
    /\ input \in Chars
    /\ calls = << >>
    /\ status = "ok"

Next ==
    \/ CallIsNonstandardWidth
    \/ CallToStandardWidth
    \/ CallToHalfwidth
    \/ CallToFullwidth

Spec == Init /\ [][Next]_vars

TypeOK ==
    /\ input \in Chars
    /\ status \in {"ok", "panic", "ub"}
    /\ Len(calls) <= MaxCalls

\* ------------------------------------------------------------ properties
Idx == 1..Len(calls)

\* Pairs of consecutive calls.
Pairs == {i \in Idx : i + 1 \in Idx}

\* The arm a converter takes on arg.
MatchOf(fn, arg) ==
    IF fn = "to_halfwidth" THEN to_halfwidth_match(arg)
    ELSE IF fn = "to_fullwidth" THEN to_fullwidth_match(arg)
    ELSE to_standard_width_match(arg)

\* C1: round trip in both directions: when to_halfwidth(ch) returned Some(h),
\* to_fullwidth(h) returns Some(ch), and when to_fullwidth(ch) returned
\* Some(f), to_halfwidth(f) returns Some(ch).
RoundTrip ==
    \A i \in Pairs :
        LET a == calls[i]
            b == calls[i + 1]
        IN  /\ (a.fn = "to_halfwidth" /\ IsSome(a.ret)
                /\ b.fn = "to_fullwidth" /\ b.arg = a.ret[1])
               => b.ret = Some(a.arg)
            /\ (a.fn = "to_fullwidth" /\ IsSome(a.ret)
                /\ b.fn = "to_halfwidth" /\ b.arg = a.ret[1])
               => b.ret = Some(a.arg)

\* Halfwidth katakana KA went to fullwidth KA and came back.
RoundTripWitness ==
    /\ Len(calls) = 2
    /\ calls[1] = [fn |-> "to_fullwidth", arg |-> \hff76, ret |-> Some(\h30ab)]
    /\ calls[2] = [fn |-> "to_halfwidth", arg |-> \h30ab, ret |-> Some(\hff76)]

DispatchAgrees ==
    \A i \in Idx :
        LET c == calls[i].arg
        IN  calls[i].fn = "to_standard_width"
            => calls[i].ret =
                 IF (\hff01 <= c /\ c <= \hff60) \/ (\hffe0 <= c /\ c <= \hffe6)
                 THEN to_halfwidth(c)
                 ELSE IF (\hff61 <= c /\ c <= \hffdc) \/ (\hffe8 <= c /\ c <= \hffee)
                 THEN to_fullwidth(c)
                 ELSE None

\* to_fullwidth('a') succeeded and to_standard_width('a') returned None.
DispatchAgreesWitness ==
    /\ Len(calls) = 2
    /\ calls[1] = [fn |-> "to_fullwidth", arg |-> \h61, ret |-> Some(\hff41)]
    /\ calls[2] = [fn |-> "to_standard_width", arg |-> \h61, ret |-> None]

\* C4: to_halfwidth and to_fullwidth never both return Some for one character.
DisjointDomains ==
    \A i \in Idx : \A j \in Idx :
        (calls[i].fn = "to_halfwidth" /\ calls[j].fn = "to_fullwidth"
         /\ calls[i].arg = calls[j].arg)
        => ~(IsSome(calls[i].ret) /\ IsSome(calls[j].ret))

\* Both conversions ran on fullwidth katakana KA; only to_halfwidth succeeded.
DisjointDomainsWitness ==
    /\ Len(calls) = 2
    /\ calls[1] = [fn |-> "to_halfwidth", arg |-> \h30ab, ret |-> Some(\hff76)]
    /\ calls[2] = [fn |-> "to_fullwidth", arg |-> \h30ab, ret |-> None]

Gaps == {\hffbf, \hffc8, \hffd0, \hffd8, \hffe7, \hffef}

\* C5: every conversion returns None on the gap code points FFBF, FFC8, FFD0,
\* FFD8, FFE7 and FFEF.
GapsUnmapped ==
    \A i \in Idx :
        (calls[i].fn \in Converters /\ calls[i].arg \in Gaps)
        => calls[i].ret = None

\* to_fullwidth ran on the gap U+FFBF inside the Hangul range.
GapsUnmappedWitness ==
    /\ calls # << >>
    /\ calls[1] = [fn |-> "to_fullwidth", arg |-> \hffbf, ret |-> None]

\* C6 as stated: to_standard_width returns None on FFDD..FFE0, FFE7 and FFEF.
StandardWidthNoneThroughFFE0 ==
    \A i \in Idx :
        LET c == calls[i].arg
        IN  (calls[i].fn = "to_standard_width"
             /\ ((\hffdd <= c /\ c <= \hffe0) \/ c = \hffe7 \/ c = \hffef))
            => calls[i].ret = None

\* C6, amended: to_standard_width returns None on FFDD..FFDF, FFE7 and FFEF;
\* FFE0 is the fullwidth cent sign and converts to U+00A2.
StandardWidthNoneThroughFFDF ==
    \A i \in Idx :
        LET c == calls[i].arg
        IN  (calls[i].fn = "to_standard_width"
             /\ ((\hffdd <= c /\ c <= \hffdf) \/ c = \hffe7 \/ c = \hffef))
            => calls[i].ret = None

\* to_standard_width ran on U+FFDD, just past the Hangul range.
StandardWidthNoneWitness ==
    /\ calls # << >>
    /\ calls[1] = [fn |-> "to_standard_width", arg |-> \hffdd, ret |-> None]

\* C7: a character already in the target width is not converted again: after
\* to_halfwidth(ch) = Some(h), to_halfwidth(h) is None, and after
\* to_fullwidth(ch) = Some(f), to_fullwidth(f) is None; to_halfwidth('a') and
\* to_fullwidth(U+30AB) are None.
NoSecondConversion ==
    /\ \A i \in Pairs :
        LET a == calls[i]
            b == calls[i + 1]
        IN  (a.fn \in {"to_halfwidth", "to_fullwidth"} /\ b.fn = a.fn
             /\ IsSome(a.ret) /\ b.arg = a.ret[1])
            => b.ret = None
    /\ \A i \in Idx :
        /\ (calls[i].fn = "to_halfwidth" /\ calls[i].arg = \h61)
           => calls[i].ret = None
        /\ (calls[i].fn = "to_fullwidth" /\ calls[i].arg = \h30ab)
           => calls[i].ret = None

\* to_halfwidth ran again on the halfwidth KA it had produced.
NoSecondConversionWitness ==
    /\ Len(calls) = 2
    /\ calls[1] = [fn |-> "to_halfwidth", arg |-> \h30ab, ret |-> Some(\hff76)]
    /\ calls[2] = [fn |-> "to_halfwidth", arg |-> \hff76, ret |-> None]

\* C8: no conversion panics or builds an invalid char: the offset arithmetic
\* never leaves u32, every value given to transmute is a Unicode scalar value,
\* and every call returns None or Some of a valid char.
NoOverflowNoInvalidChar ==
    /\ status = "ok"
    /\ \A i \in Idx :
        calls[i].fn \in Converters
        => LET m == MatchOf(calls[i].fn, calls[i].arg)
           IN  /\ m.some => (~m.ovf /\ ValidChar(m.v))
               /\ IsSome(calls[i].ret) => IsScalar(calls[i].ret[1])

\* An offset arm ran at the top of its range: to_halfwidth(U+FF5E) = '~'.
NoOverflowWitness ==
    /\ calls # << >>
    /\ calls[1] = [fn |-> "to_halfwidth", arg |-> \hff5e, ret |-> Some(\h7e)]
    /\ status = "ok"

HangulGaps == (\hffbf..\hffc1) \cup (\hffc8..\hffc9) \cup (\hffd0..\hffd1)
              \cup (\hffd8..\hffd9)

\* C9: inside the block FF00..FFEF, to_fullwidth is Some exactly on
\* [FF61,FF9F], on [FFA0,FFDC] outside the four Hangul gaps and on
\* [FFE8,FFEE]; to_halfwidth is Some exactly on [FF01,FF60] and [FFE0,FFE6].
BlockDomains ==
    \A i \in Idx :
        LET c == calls[i].arg
        IN  (\hff00 <= c /\ c <= \hffef)
            => /\ calls[i].fn = "to_fullwidth"
                  => (IsSome(calls[i].ret)
                      <=> \/ c \in \hff61..\hff9f
                          \/ c \in (\hffa0..\hffdc) \ HangulGaps
                          \/ c \in \hffe8..\hffee)
               /\ calls[i].fn = "to_halfwidth"
                  => (IsSome(calls[i].ret)
                      <=> (c \in \hff01..\hff60 \/ c \in \hffe0..\hffe6))

\* to_fullwidth ran on U+FFC2, the first code point after a Hangul gap.
BlockDomainsWitness ==
    /\ calls # << >>
    /\ calls[1] = [fn |-> "to_fullwidth", arg |-> \hffc2, ret |-> Some(\h314f)]

\* C10: every mapping crosses the block boundary: when to_halfwidth or
\* to_fullwidth maps ch to r, exactly one of ch and r is in the block; when
\* to_standard_width maps ch to s, ch is in the block, s is not, and
\* to_standard_width(s) is None.
CrossesBlock ==
    /\ \A i \in Idx :
        LET a == calls[i]
        IN  /\ (a.fn \in {"to_halfwidth", "to_fullwidth"} /\ IsSome(a.ret))
               => (is_nonstandard_width(a.arg)
                   # is_nonstandard_width(a.ret[1]))
            /\ (a.fn = "to_standard_width" /\ IsSome(a.ret))
               => /\ is_nonstandard_width(a.arg)
                  /\ ~is_nonstandard_width(a.ret[1])
    /\ \A i \in Pairs :
        LET a == calls[i]
            b == calls[i + 1]
        IN  (a.fn = "to_standard_width" /\ IsSome(a.ret)
             /\ b.fn = "to_standard_width" /\ b.arg = a.ret[1])
            => b.ret = None

\* to_standard_width mapped the halfwidth arrow U+FFE9 to U+2190 and then
\* returned None on U+2190.
CrossesBlockWitness ==
    /\ Len(calls) = 2
    /\ calls[1] = [fn |-> "to_standard_width", arg |-> \hffe9,
                   ret |-> Some(\h2190)]
    /\ calls[2] = [fn |-> "to_standard_width", arg |-> \h2190, ret |-> None]

====
